---------------------------- MODULE Spec2Model ----------------------------
(***************************************************************************)
(* Model of the address-book assistant of src/src/main.py: validated       *)
(* fields (Phone, Birthday), Record, AddressBook, the command handlers,    *)
(* pickle persistence and the command loop of main().                      *)
(*                                                                         *)
(* Representation.  A Python str is a sequence of characters; a character  *)
(* is a one-character TLA+ string, except "U+00B2" which stands for the    *)
(* single character SUPERSCRIPT TWO.  None is the empty sequence and an    *)
(* optional object is a sequence of length at most one.  A datetime is a   *)
(* record [year, month, day, tod], tod being the time of day in seconds.   *)
(* The AddressBook's dict is a sequence of entries [key, rec] in insertion *)
(* order; a Record object is [name, phones, birthday] and is referred to   *)
(* by one entry of the dict only, so that a method call on the Record an   *)
(* entry refers to changes that entry.                                     *)
(***************************************************************************)
EXTENDS Integers, Sequences, FiniteSets, TLC

VARIABLES
    book,     \* AddressBook.data of the running process (main.py:91-93)
    file,     \* content of addressbook.pkl: <<>> when missing, else <<opcodes>>
    pc,       \* position of the process: "start", "run", "returned", "saved", "loaded", "loop", "done", "crashed"
    last,     \* the call made last: its arguments, return value, printed lines, the book before it
    script,   \* lines still to be read by input() in main()
    loads,    \* number of load_data calls made by the process
    saves     \* number of save_data calls made by the process

vars == <<book, file, pc, last, script, loads, saves>>

----------------------------------------------------------------------------
(* Bounds of the model *)

\* most phones a Record holds in the model (add_phone is not offered beyond)
MaxPhones == 2
\* most lines of a session before its final exit/close line
MaxScript == 2

(* Program constants *)

\* main.py:33  len(value) == 10
PhoneLen == 10
\* main.py:105  days=7
DefaultDays == 7

----------------------------------------------------------------------------
(* Characters and strings *)

DecimalDigits == {"0", "1", "2", "3", "4", "5", "6", "7", "8", "9"}

\* characters c other than 0-9 for which Python's c.isdigit() is True; the
\* model's alphabet holds one of them, SUPERSCRIPT TWO
OtherDigits == {"U+00B2"}

DigitVal(c) ==
    CASE c = "0" -> 0 [] c = "1" -> 1 [] c = "2" -> 2 [] c = "3" -> 3
      [] c = "4" -> 4 [] c = "5" -> 5 [] c = "6" -> 6 [] c = "7" -> 7
      [] c = "8" -> 8 [] c = "9" -> 9

Range(s) == {s[i] : i \in 1..Len(s)}

\* str.isdigit(): every character is a digit and there is at least one
isdigit(s) == Len(s) > 0 /\ \A i \in 1..Len(s) : s[i] \in DecimalDigits \cup OtherDigits

\* Phone.validate_phone (main.py:31-33)
validate_phone(value) == isdigit(value) /\ Len(value) = PhoneLen

----------------------------------------------------------------------------
(* Calendar: datetime of the standard library, as used by main.py *)

IsLeap(y) == (y % 4 = 0) /\ ((y % 100 # 0) \/ (y % 400 = 0))

DaysInMonth(y, m) ==
    CASE m \in {1, 3, 5, 7, 8, 10, 12} -> 31
      [] m \in {4, 6, 9, 11} -> 30
      [] m = 2 -> IF IsLeap(y) THEN 29 ELSE 28

RECURSIVE DaysBeforeMonth(_, _)
DaysBeforeMonth(y, m) == IF m = 1 THEN 0 ELSE DaysBeforeMonth(y, m - 1) + DaysInMonth(y, m - 1)

\* proleptic Gregorian ordinal of a date, 0001-01-01 being day 1
Ordinal(y, m, d) ==
    LET p == y - 1
    IN  p * 365 + (p \div 4) - (p \div 100) + (p \div 400) + DaysBeforeMonth(y, m) + d

Datetime(y, m, d, t) == [year |-> y, month |-> m, day |-> d, tod |-> t]

\* a <= b on datetimes
DtLeq(a, b) ==
    LET oa == Ordinal(a.year, a.month, a.day)
        ob == Ordinal(b.year, b.month, b.day)
    IN  oa < ob \/ (oa = ob /\ a.tod <= b.tod)

RECURSIVE DateOfOrdinal(_, _, _)
\* the date n days after the first day of month m of year y (n >= 0)
DateOfOrdinal(y, m, n) ==
    IF n < DaysInMonth(y, m) THEN <<y, m, n + 1>>
    ELSE IF m = 12 THEN DateOfOrdinal(y + 1, 1, n - DaysInMonth(y, m))
    ELSE DateOfOrdinal(y, m + 1, n - DaysInMonth(y, m))

\* dt + timedelta(days=n), n >= 0
PlusDays(dt, n) ==
    LET r == DateOfOrdinal(dt.year, dt.month, dt.day - 1 + n)
    IN  Datetime(r[1], r[2], r[3], dt.tod)

\* datetime.replace(year=y): <<>> when it raises ValueError (29 February in a
\* year that is not a leap year), else <<the new datetime>>
ReplaceYear(dt, y) ==
    IF dt.day > DaysInMonth(y, dt.month) THEN <<>>
    ELSE <<Datetime(y, dt.month, dt.day, dt.tod)>>

----------------------------------------------------------------------------
(* datetime.strptime(value, "%d.%m.%Y"), called at main.py:38.  The format *)
(* compiles to the regular expression                                      *)
(*   (3[0-1]|[1-2]\d|0[1-9]|[1-9]| [1-9])\.(1[0-2]|0[1-9]|[1-9])\.(\d\d\d\d) *)
(* which must match from the start and leave nothing unconverted; the      *)
(* fields must then form a date datetime accepts.                          *)

\* index of the first "." of s at or after position i, 0 when there is none
RECURSIVE FindDot(_, _)
FindDot(s, i) ==
    IF i > Len(s) THEN 0 ELSE IF s[i] = "." THEN i ELSE FindDot(s, i + 1)

NonZeroDigits == DecimalDigits \ {"0"}

\* %d : 3[0-1] | [1-2]\d | 0[1-9] | [1-9] | " "[1-9]
MatchesDay(t) ==
    \/ Len(t) = 2 /\ t[1] = "3" /\ t[2] \in {"0", "1"}
    \/ Len(t) = 2 /\ t[1] \in {"1", "2"} /\ t[2] \in DecimalDigits
    \/ Len(t) = 2 /\ t[1] = "0" /\ t[2] \in NonZeroDigits
    \/ Len(t) = 1 /\ t[1] \in NonZeroDigits
    \/ Len(t) = 2 /\ t[1] = " " /\ t[2] \in NonZeroDigits

\* %m : 1[0-2] | 0[1-9] | [1-9]
MatchesMonth(t) ==
    \/ Len(t) = 2 /\ t[1] = "1" /\ t[2] \in {"0", "1", "2"}
    \/ Len(t) = 2 /\ t[1] = "0" /\ t[2] \in NonZeroDigits
    \/ Len(t) = 1 /\ t[1] \in NonZeroDigits

\* %Y : \d\d\d\d, and no character after it
MatchesYear(t) == Len(t) = 4 /\ \A i \in 1..4 : t[i] \in DecimalDigits

RECURSIVE IntOf(_)
\* int() of a string of decimal digits, a leading space skipped
IntOf(t) ==
    IF Len(t) = 0 THEN 0
    ELSE IF t[Len(t)] = " " THEN 0
    ELSE 10 * IntOf(SubSeq(t, 1, Len(t) - 1)) + DigitVal(t[Len(t)])

\* <<>> when strptime raises ValueError, else <<the datetime parsed>>
strptime(value) ==
    LET p1 == FindDot(value, 1)
        p2 == IF p1 = 0 THEN 0 ELSE FindDot(value, p1 + 1)
    IN  IF p1 = 0 \/ p2 = 0 THEN <<>>
        ELSE LET dt == SubSeq(value, 1, p1 - 1)
                 mt == SubSeq(value, p1 + 1, p2 - 1)
                 yt == SubSeq(value, p2 + 1, Len(value))
             IN  IF ~(MatchesDay(dt) /\ MatchesMonth(mt) /\ MatchesYear(yt)) THEN <<>>
                 ELSE LET d == IntOf(dt)
                          m == IntOf(mt)
                          y == IntOf(yt)
                      IN  IF y < 1 \/ d > DaysInMonth(y, m) THEN <<>>
                          ELSE <<Datetime(y, m, d, 0)>>

\* Birthday.__init__ (main.py:35-40): <<>> when it raises ValueError, else
\* <<the Birthday object>>, an object with the one attribute value
Birthday(value) ==
    LET parsed == strptime(value)
    IN  IF parsed = <<>> THEN <<>> ELSE <<[value |-> parsed[1]]>>

\* Phone.__init__ (main.py:24-29): <<>> when it raises ValueError, else
\* <<the Phone object>>
Phone(value) == IF validate_phone(value) THEN <<[value |-> value]>> ELSE <<>>

----------------------------------------------------------------------------
(* Record (main.py:42-89).  Each method is an operator from the object to  *)
(* [rec: the object afterwards, result: the value returned, out: the lines *)
(* printed].                                                               *)

\* Record.__init__ (main.py:43-46)
Record(name) ==
    [name |-> [value |-> name], phones |-> <<>>, birthday |-> <<>>]

\* add_phone with the new phone put at the front of the list
Record_add_phone_front(rec, phone) ==
    LET p == Phone(phone)
    IN  IF p # <<>>
        THEN [rec |-> [rec EXCEPT !.phones = <<p[1]>> \o @],
              result |-> "None", out |-> <<>>]
        ELSE [rec |-> rec, result |-> "None",
              out |-> <<"Phone number must be exactly 10 digits.">>]

\* Record.add_phone (main.py:48-52): no return statement, so None either way
Record_add_phone(rec, phone) ==
    LET p == Phone(phone)
    IN  IF p # <<>>
        THEN [rec |-> [rec EXCEPT !.phones = Append(@, p[1])],
              result |-> "None", out |-> <<>>]
        ELSE [rec |-> rec, result |-> "None",
              out |-> <<"Phone number must be exactly 10 digits.">>]

\* index of the first phone of the list whose value is phone, 0 when none
RECURSIVE IndexOfPhone(_, _, _)
IndexOfPhone(phones, phone, i) ==
    IF i > Len(phones) THEN 0
    ELSE IF phones[i].value = phone THEN i
    ELSE IndexOfPhone(phones, phone, i + 1)

RemoveAt(s, i) == SubSeq(s, 1, i - 1) \o SubSeq(s, i + 1, Len(s))

\* Record.remove_phone (main.py:54-60)
Record_remove_phone(rec, phone) ==
    LET i == IndexOfPhone(rec.phones, phone, 1)
    IN  IF i # 0
        THEN [rec |-> [rec EXCEPT !.phones = RemoveAt(@, i)],
              result |-> "True", out |-> <<>>]
        ELSE [rec |-> rec, result |-> "False", out |-> <<"Phone not found.">>]

\* Record.edit_phone (main.py:62-72): the loop returns at the first match
Record_edit_phone(rec, old_phone, new_phone) ==
    LET i == IndexOfPhone(rec.phones, old_phone, 1)
        p == Phone(new_phone)
    IN  IF i = 0
        THEN [rec |-> rec, result |-> "False", out |-> <<"Old phone not found.">>]
        ELSE IF p # <<>>
        THEN [rec |-> [rec EXCEPT !.phones[i] = p[1]], result |-> "True", out |-> <<>>]
        ELSE [rec |-> rec, result |-> "False",
              out |-> <<"Phone number must be exactly 10 digits.">>]

\* Record.find_phone (main.py:74-78): <<>> for None, else <<the Phone>>
Record_find_phone(rec, phone) ==
    LET i == IndexOfPhone(rec.phones, phone, 1)
    IN  IF i = 0 THEN <<>> ELSE <<rec.phones[i]>>

\* Record.add_birthday (main.py:80-84)
Record_add_birthday(rec, birthday) ==
    LET b == Birthday(birthday)
    IN  IF b # <<>>
        THEN [rec |-> [rec EXCEPT !.birthday = b], result |-> "None", out |-> <<>>]
        ELSE [rec |-> rec, result |-> "None",
              out |-> <<"Invalid date format. Use DD.MM.YYYY">>]

\* the decimal digit character of n in 0..9
DigitChar(n) == CHOOSE c \in DecimalDigits : DigitVal(c) = n

\* str(n) for n >= 0: decimal, no leading zeros
RECURSIVE DecimalOf(_)
DecimalOf(n) == IF n < 10 THEN <<DigitChar(n)>> ELSE DecimalOf(n \div 10) \o <<DigitChar(n % 10)>>

\* value.strftime('%d.%m.%Y') (main.py:88): day and month zero-padded to two
\* digits; the C library's %Y writes the year without padding
strftime(dt) ==
    <<DigitChar(dt.day \div 10), DigitChar(dt.day % 10), ".",
      DigitChar(dt.month \div 10), DigitChar(dt.month % 10), ".">> \o DecimalOf(dt.year)

\* '; '.join(p.value for p in self.phones) from the i-th phone on (main.py:87)
RECURSIVE JoinPhones(_, _)
JoinPhones(phones, i) ==
    IF i > Len(phones) THEN <<>>
    ELSE phones[i].value \o (IF i < Len(phones) THEN <<";", " ">> ELSE <<>>)
           \o JoinPhones(phones, i + 1)

\* Record.__str__ (main.py:86-89)
Record_str(rec) ==
    LET phones_str == JoinPhones(rec.phones, 1)
        birthday_str == IF rec.birthday # <<>>
                        THEN <<",", " ", "b", "i", "r", "t", "h", "d", "a", "y", ":", " ">> \o strftime(rec.birthday[1].value)
                        ELSE <<>>
    IN  <<"C", "o", "n", "t", "a", "c", "t", " ", "n", "a", "m", "e", ":", " ">> \o rec.name.value \o <<",", " ", "p", "h", "o", "n", "e", "s", ":", " ">> \o phones_str \o birthday_str

----------------------------------------------------------------------------
(* AddressBook (main.py:91-114).  data is a sequence of entries            *)
(* [key, rec]: a dict keeps its keys in insertion order, and assigning to  *)
(* a key already present keeps the key's position.                         *)

RECURSIVE IndexOfKey(_, _, _)
IndexOfKey(data, name, i) ==
    IF i > Len(data) THEN 0
    ELSE IF data[i].key = name THEN i
    ELSE IndexOfKey(data, name, i + 1)

Keys(data) == {data[i].key : i \in 1..Len(data)}

\* self.data[key] = rec
SetItem(data, key, rec) ==
    LET i == IndexOfKey(data, key, 1)
    IN  IF i = 0 THEN Append(data, [key |-> key, rec |-> rec])
        ELSE [data EXCEPT ![i] = [key |-> key, rec |-> rec]]

\* add_record storing the record as a new entry whether or not its name is a key
add_record_dup(data, record) ==
    Append(data, [key |-> record.name.value, rec |-> record])

\* AddressBook.add_record (main.py:92-93)
add_record(data, record) == SetItem(data, record.name.value, record)

\* AddressBook.find (main.py:95-96): <<>> for None, else <<the Record>>
find(data, name) ==
    LET i == IndexOfKey(data, name, 1)
    IN  IF i = 0 THEN <<>> ELSE <<data[i].rec>>

\* AddressBook.delete (main.py:98-103)
delete(data, name) ==
    LET i == IndexOfKey(data, name, 1)
    IN  IF i # 0
        THEN [book |-> RemoveAt(data, i), result |-> "True", out |-> <<>>]
        ELSE [book |-> data, result |-> "False", out |-> <<"Record not found.">>]

\* the loop body of get_upcoming_birthdays (main.py:110-113) for one record:
\* "raise" when replace() raises ValueError, else whether the record is appended
InWindow(record, today, next_week) ==
    IF record.birthday = <<>> THEN "skip"
    ELSE LET birthday_this_year == ReplaceYear(record.birthday[1].value, today.year)
         IN  IF birthday_this_year = <<>> THEN "raise"
             ELSE IF DtLeq(today, birthday_this_year[1]) /\ DtLeq(birthday_this_year[1], next_week)
                  THEN "append" ELSE "skip"

RECURSIVE UpcomingFrom(_, _, _, _, _)
UpcomingFrom(data, i, today, next_week, acc) ==
    IF i > Len(data) THEN [raised |-> FALSE, value |-> acc]
    ELSE LET w == InWindow(data[i].rec, today, next_week)
         IN  IF w = "raise" THEN [raised |-> TRUE, value |-> <<>>]
             ELSE UpcomingFrom(data, i + 1, today, next_week,
                               IF w = "append" THEN Append(acc, data[i].rec) ELSE acc)

\* AddressBook.get_upcoming_birthdays (main.py:105-114); now is the value
\* datetime.now() returns.  raised: a ValueError leaves the method
get_upcoming_birthdays(data, days, now) ==
    UpcomingFrom(data, 1, now, PlusDays(now, days), <<>>)

----------------------------------------------------------------------------
(* Command handlers (main.py:116-175).  Each is an operator to             *)
(* [book: data afterwards, result: the string returned, out: lines printed *)
(* by the methods it calls, value: the Records a query found].  The        *)
(* input_error decorator (main.py:5-11) turns a KeyError, ValueError or    *)
(* IndexError leaving the handler into the returned string str(e).  An     *)
(* f-string result is given by its template, "{name}" left as written.     *)

Ret(data, result, out) == [book |-> data, result |-> result, out |-> out, value |-> <<>>]

\* record = book.find(name) followed by method calls on record: the object
\* the entry under name refers to is changed, and now is rec
Mutate(data, name, rec) ==
    [data EXCEPT ![IndexOfKey(data, name, 1)].rec = rec]

\* Python truth value of the birthday argument (main.py:121-123): <<>> is
\* None, <<s>> is the string s, and the empty string is false
Truthy(opt) == opt # <<>> /\ Len(opt[1]) > 0

\* add_contact (main.py:116-145)
add_contact(args, data) ==
    IF Len(args) < 2
    THEN Ret(data, "Not enough arguments. Usage: add [name] [phone]", <<>>)
    ELSE
      LET name == args[1]
          phone == args[2]
          birthday == IF Len(args) > 2 THEN <<args[3]>> ELSE <<>>
      IN  IF Truthy(birthday) /\ Birthday(birthday[1]) = <<>>
          THEN Ret(data, "Failed to add contact. Invalid date format. Use DD.MM.YYYY", <<>>)
          ELSE
            LET found == find(data, name)
                record == IF found = <<>> THEN Record(name) ELSE found[1]
                data1 == IF found = <<>> THEN add_record(data, record) ELSE data
                message == IF found = <<>> THEN "Contact added." ELSE "Contact updated."
                b == IF Truthy(birthday)
                     THEN Record_add_birthday(record, birthday[1])
                     ELSE [rec |-> record, result |-> "None", out |-> <<>>]
                p == IF Len(phone) > 0
                     THEN Record_add_phone(b.rec, phone)
                     ELSE [rec |-> b.rec, result |-> "None", out |-> <<>>]
            IN  Ret(Mutate(data1, name, p.rec), message, b.out \o p.out)

\* add_birthday (main.py:147-154); the unpacking at line 149 raises
\* ValueError on fewer than two arguments
add_birthday(args, data) ==
    IF Len(args) < 2
    THEN Ret(data, "not enough values to unpack (expected at least 2, got {n})", <<>>)
    ELSE
      LET found == find(data, args[1])
      IN  IF found = <<>> THEN Ret(data, "Contact {name} not found.", <<>>)
          ELSE LET b == Record_add_birthday(found[1], args[2])
               IN  Ret(Mutate(data, args[1], b.rec), "Birthday added for contact {name}.", b.out)

\* show_birthday (main.py:156-165)
show_birthday(args, data) ==
    IF Len(args) < 1
    THEN Ret(data, "not enough values to unpack (expected at least 1, got 0)", <<>>)
    ELSE
      LET found == find(data, args[1])
      IN  IF found = <<>> THEN Ret(data, "Contact {name} not found.", <<>>)
          ELSE IF found[1].birthday # <<>>
          THEN [Ret(data, "{name}'s birthday is on {birthday}", <<>>) EXCEPT !.value = found]
          ELSE Ret(data, "Birthday for contact {name} is not set.", <<>>)

\* birthdays (main.py:167-175); now is the value datetime.now() returns
\* inside get_upcoming_birthdays.  The ValueError of replace() is caught by
\* input_error and its text returned
birthdays(args, data, now) ==
    LET upcoming_birthdays == get_upcoming_birthdays(data, DefaultDays, now)
    IN  IF upcoming_birthdays.raised THEN Ret(data, "day is out of range for month", <<>>)
        ELSE IF upcoming_birthdays.value = <<>>
        THEN Ret(data, "No upcoming birthdays in the next week.", <<>>)
        ELSE [Ret(data, "Upcoming birthdays:\n{name} on {birthday}\n...", <<>>)
                EXCEPT !.value = upcoming_birthdays.value]

----------------------------------------------------------------------------
(* Persistence (main.py:183-192).  pickle.dump writes the object graph as  *)
(* a program for pickle's stack machine and pickle.load runs it.  The      *)
(* model keeps the opcodes that carry the graph (protocol 4: an object is  *)
(* GLOBAL class, EMPTY_TUPLE, NEWOBJ, its __dict__, BUILD; a datetime is   *)
(* reduced to its ten state bytes) and leaves out framing and the memo,    *)
(* which do not change the graph that is rebuilt.  Attribute names are     *)
(* TLA+ strings.                                                           *)

Op(op, arg) == [op |-> op, arg |-> arg]
Op0(op) == [op |-> op, arg |-> <<>>]

\* save of an instance of cls whose __dict__ is written by the opcodes state
PickleObject(cls, state) ==
    <<Op("GLOBAL", cls), Op0("EMPTY_TUPLE"), Op0("NEWOBJ")>> \o state \o <<Op0("BUILD")>>

\* datetime.__reduce__: year as two bytes, month, day, hour, minute, second
\* and three bytes of microseconds
PickleDatetime(dt) ==
    <<Op("GLOBAL", "datetime"),
      Op("BINBYTES", <<dt.year \div 256, dt.year % 256, dt.month, dt.day,
                       dt.tod \div 3600, (dt.tod % 3600) \div 60, dt.tod % 60, 0, 0, 0>>),
      Op0("TUPLE1"), Op0("REDUCE")>>

\* a Field object (Name, Phone, Birthday): __dict__ is {'value': ...}
PickleField(cls, value) ==
    PickleObject(cls, <<Op0("EMPTY_DICT"), Op("ATTR", "value")>> \o value \o <<Op0("SETITEM")>>)

PickleStr(str) == <<Op("BINUNICODE", str)>>

RECURSIVE PicklePhones(_, _)
PicklePhones(phones, i) ==
    IF i > Len(phones) THEN <<>>
    ELSE PickleField("Phone", PickleStr(phones[i].value)) \o PicklePhones(phones, i + 1)

\* a list: its items follow EMPTY_LIST, one with APPEND, several between
\* MARK and APPENDS
PickleList(items, n) ==
    <<Op0("EMPTY_LIST")>> \o
    (IF n = 0 THEN <<>>
     ELSE IF n = 1 THEN items \o <<Op0("APPEND")>>
     ELSE <<Op0("MARK")>> \o items \o <<Op0("APPENDS")>>)

\* a Record: __dict__ is {'name': Name, 'phones': [...], 'birthday': ...}
PickleRecord(rec) ==
    PickleObject("Record",
        <<Op0("EMPTY_DICT"), Op0("MARK"), Op("ATTR", "name")>>
        \o PickleField("Name", PickleStr(rec.name.value))
        \o <<Op("ATTR", "phones")>>
        \o PickleList(PicklePhones(rec.phones, 1), Len(rec.phones))
        \o <<Op("ATTR", "birthday")>>
        \o (IF rec.birthday = <<>> THEN <<Op0("NONE")>>
            ELSE PickleField("Birthday", PickleDatetime(rec.birthday[1].value)))
        \o <<Op0("SETITEMS")>>)

RECURSIVE PickleItems(_, _)
PickleItems(data, i) ==
    IF i > Len(data) THEN <<>>
    ELSE PickleStr(data[i].key) \o PickleRecord(data[i].rec) \o PickleItems(data, i + 1)

\* a dict: as a list, with SETITEM and SETITEMS
PickleDict(items, n) ==
    <<Op0("EMPTY_DICT")>> \o
    (IF n = 0 THEN <<>>
     ELSE IF n = 1 THEN items \o <<Op0("SETITEM")>>
     ELSE <<Op0("MARK")>> \o items \o <<Op0("SETITEMS")>>)

\* pickle.dump(book, f) (main.py:185): the AddressBook, a UserDict whose
\* __dict__ is {'data': {...}}
Pickle(data) ==
    <<Op("PROTO", 4)>>
    \o PickleObject("AddressBook",
          <<Op0("EMPTY_DICT"), Op("ATTR", "data")>>
          \o PickleDict(PickleItems(data, 1), Len(data))
          \o <<Op0("SETITEM")>>)
    \o <<Op0("STOP")>>

(* pickle.load: the stack machine.  A value on the stack is [t, v]: t its  *)
(* kind and v its content; an object's content is [cls, dict], a dict's is *)
(* a sequence of pairs [k, v] in insertion order.                          *)

Val(t, v) == [t |-> t, v |-> v]
Top(st) == st[Len(st)]
Pop(st, n) == SubSeq(st, 1, Len(st) - n)

\* index of the topmost MARK on the stack
RECURSIVE TopMark(_, _)
TopMark(st, i) == IF st[i].t = "mark" THEN i ELSE TopMark(st, i - 1)

RECURSIVE IndexOfPair(_, _, _)
IndexOfPair(pairs, k, i) ==
    IF i > Len(pairs) THEN 0
    ELSE IF pairs[i].k.t = k.t /\ pairs[i].k.v = k.v THEN i
    ELSE IndexOfPair(pairs, k, i + 1)

\* d[k] = v on a dict's pairs
DictSet(pairs, k, v) ==
    LET i == IndexOfPair(pairs, k, 1)
    IN  IF i = 0 THEN Append(pairs, [k |-> k, v |-> v])
        ELSE [pairs EXCEPT ![i] = [k |-> k, v |-> v]]

\* d[k1] = v1, d[k2] = v2, ... for the items k1, v1, k2, v2, ... from index i
RECURSIVE DictSetAll(_, _, _)
DictSetAll(pairs, items, i) ==
    IF i + 1 > Len(items) THEN pairs
    ELSE DictSetAll(DictSet(pairs, items[i], items[i + 1]), items, i + 2)

\* the datetime class called on its ten state bytes
DatetimeOfBytes(b) == Datetime(b[1] * 256 + b[2], b[3], b[4], b[5] * 3600 + b[6] * 60 + b[7])

\* one opcode on the stack st
Exec(o, st) ==
    CASE o.op = "PROTO" -> st
      [] o.op = "GLOBAL" -> Append(st, Val("class", o.arg))
      [] o.op = "EMPTY_TUPLE" -> Append(st, Val("tuple", <<>>))
      [] o.op = "NEWOBJ" ->
            Append(Pop(st, 2), Val("obj", [cls |-> st[Len(st) - 1].v, dict |-> <<>>]))
      [] o.op = "EMPTY_DICT" -> Append(st, Val("dict", <<>>))
      [] o.op = "EMPTY_LIST" -> Append(st, Val("list", <<>>))
      [] o.op = "ATTR" -> Append(st, Val("attr", o.arg))
      [] o.op = "BINUNICODE" -> Append(st, Val("str", o.arg))
      [] o.op = "BINBYTES" -> Append(st, Val("bytes", o.arg))
      [] o.op = "NONE" -> Append(st, Val("none", <<>>))
      [] o.op = "MARK" -> Append(st, Val("mark", <<>>))
      [] o.op = "TUPLE1" -> Append(Pop(st, 1), Val("tuple", <<Top(st)>>))
      [] o.op = "REDUCE" ->
            \* the only callable reduced is datetime, on a tuple of one bytes
            Append(Pop(st, 2), Val("datetime", DatetimeOfBytes(Top(st).v[1].v)))
      [] o.op = "APPEND" ->
            Append(Pop(st, 2), Val("list", Append(st[Len(st) - 1].v, Top(st))))
      [] o.op = "APPENDS" ->
            LET m == TopMark(st, Len(st))
            IN  Append(Pop(st, Len(st) - m + 2),
                       Val("list", st[m - 1].v \o SubSeq(st, m + 1, Len(st))))
      [] o.op = "SETITEM" ->
            Append(Pop(st, 3),
                   Val("dict", DictSet(st[Len(st) - 2].v, st[Len(st) - 1], Top(st))))
      [] o.op = "SETITEMS" ->
            LET m == TopMark(st, Len(st))
            IN  Append(Pop(st, Len(st) - m + 2),
                       Val("dict", DictSetAll(st[m - 1].v, SubSeq(st, m + 1, Len(st)), 1)))
      [] o.op = "BUILD" ->
            \* inst.__dict__.update(state), the instance's __dict__ being empty
            Append(Pop(st, 2),
                   Val("obj", [cls |-> st[Len(st) - 1].v.cls, dict |-> Top(st).v]))
      [] o.op = "STOP" -> st

RECURSIVE Run(_, _, _)
\* the opcodes from index i on the stack st: the stack when they are done
Run(ops, i, st) ==
    IF i > Len(ops) THEN st
    ELSE LET next == Exec(ops[i], st)
         IN  IF Len(next) >= 0 THEN Run(ops, i + 1, next) ELSE next

\* obj.<name> of an unpickled object
Attr(obj, name) == obj.v.dict[IndexOfPair(obj.v.dict, Val("attr", name), 1)].v

RECURSIVE PhonesOf(_, _)
PhonesOf(list, i) ==
    IF i > Len(list) THEN <<>>
    ELSE <<[value |-> Attr(list[i], "value").v]>> \o PhonesOf(list, i + 1)

\* the unpickled Record as the model writes Records
RecordOf(obj) ==
    [name |-> [value |-> Attr(Attr(obj, "name"), "value").v],
     phones |-> PhonesOf(Attr(obj, "phones").v, 1),
     birthday |-> IF Attr(obj, "birthday").t = "none" THEN <<>>
                  ELSE <<[value |-> Attr(Attr(obj, "birthday"), "value").v]>>]

RECURSIVE EntriesOf(_, _)
EntriesOf(pairs, i) ==
    IF i > Len(pairs) THEN <<>>
    ELSE <<[key |-> pairs[i].k.v, rec |-> RecordOf(pairs[i].v)]>> \o EntriesOf(pairs, i + 1)

\* pickle.load(f) (main.py:190): the data of the AddressBook rebuilt
Unpickle(ops) == EntriesOf(Attr(Top(Run(ops, 1, <<>>)), "data").v, 1)

\* save_data (main.py:183-185): the content of the file afterwards
save_data(data) == <<Pickle(data)>>

\* load_data giving a new AddressBook whether or not the file exists
load_data_fresh(f) == <<>>

\* load_data (main.py:187-192): the data of the AddressBook returned; a
\* missing file gives a new AddressBook
load_data(f) == IF f = <<>> THEN <<>> ELSE Unpickle(f[1])

----------------------------------------------------------------------------
(* Inputs of the model *)

ANN == <<"A", "n", "n">>
BOB == <<"B", "o", "b">>
\* "1234567890": a valid phone
P1 == <<"1", "2", "3", "4", "5", "6", "7", "8", "9", "0">>
\* "0987654321": a valid phone
P2 == <<"0", "9", "8", "7", "6", "5", "4", "3", "2", "1">>
\* "U+00B2 x 10": ten SUPERSCRIPT TWO characters: isdigit() holds, no character is a decimal digit
P_SUP == <<"U+00B2", "U+00B2", "U+00B2", "U+00B2", "U+00B2", "U+00B2", "U+00B2", "U+00B2", "U+00B2", "U+00B2">>
\* "123": too short
P_SHORT == <<"1", "2", "3">>
\* "12345abcde": ten characters, five of them letters
P_ALPHA == <<"1", "2", "3", "4", "5", "a", "b", "c", "d", "e">>
\* "": the empty string
EMPTY == <<>>
\* "01.06.1990": 1 June 1990
B_JUN1 == <<"0", "1", ".", "0", "6", ".", "1", "9", "9", "0">>
\* "1.6.1990": 1 June 1990 with one-digit day and month, which %d and %m accept
B_LENIENT == <<"1", ".", "6", ".", "1", "9", "9", "0">>
\* "29.02.2024": 29 February of a leap year
B_LEAP == <<"2", "9", ".", "0", "2", ".", "2", "0", "2", "4">>
\* "31.04.2000": no such day
B_APR31 == <<"3", "1", ".", "0", "4", ".", "2", "0", "0", "0">>
\* "1990-06-01": another format
B_ISO == <<"1", "9", "9", "0", "-", "0", "6", "-", "0", "1">>

Names == {ANN, BOB}
PhoneInputs == {P1, P2, P_SUP, P_SHORT, P_ALPHA, EMPTY}
BirthdayInputs == {B_JUN1, B_LENIENT, B_LEAP, B_APR31, B_ISO, EMPTY}

\* phones a Record of the model may hold, looked for by edit_phone and remove_phone
OldPhoneInputs == {P1, P2, P_SUP}

\* argument lists of the add command: too few, name and phone, and with a birthday
AddArgs ==
    {<<n>> : n \in Names}
    \cup {<<n, p>> : n \in Names, p \in PhoneInputs}
    \cup {<<n, p, b>> : n \in Names, p \in {P1, P_SUP, P_SHORT}, b \in BirthdayInputs}

\* argument lists of the add-birthday command
BirthdayArgs == {<<n>> : n \in Names} \cup {<<n, b>> : n \in Names, b \in BirthdayInputs}

Noon == 43200

\* values of datetime.now(): 1 June 2024 at midnight and at noon, 25 and 24
\* May 2024 (1 June is 7 and 8 days ahead), 25 February of a leap year and
\* of a year that is not one
Nows ==
    {Datetime(2024, 6, 1, 0), Datetime(2024, 6, 1, Noon), Datetime(2024, 5, 25, Noon),
     Datetime(2024, 5, 24, Noon), Datetime(2024, 2, 25, Noon), Datetime(2023, 2, 25, Noon)}

DaysInputs == {1, DefaultDays}

----------------------------------------------------------------------------
(* The library as a state machine: a process loads the book, calls the     *)
(* operations in any order, saves, and a later process loads the file.     *)
(* A call takes the process from "run" to "returned", where last holds     *)
(* what the caller received; Return takes it back to "run".                *)

NoCall ==
    [op |-> "none", args |-> <<>>, result |-> "None", out |-> <<>>, value |-> <<>>,
     pre |-> <<>>, now |-> <<>>, days |-> 0]

Call(op, args, r) ==
    [op |-> op, args |-> args, result |-> r.result, out |-> r.out, value |-> <<>>,
     pre |-> book, now |-> <<>>, days |-> 0]

Init ==
    /\ book = <<>>
    /\ file = <<>>
    /\ pc = "start"
    /\ last = NoCall
    /\ script = <<>>
    /\ loads = 0
    /\ saves = 0

\* book = load_data() (main.py:195)
LoadData ==
    /\ pc \in {"start", "saved"}
    /\ book' = load_data(file)
    /\ pc' = IF pc = "start" THEN "run" ELSE "loaded"
    /\ last' = Call("load_data", <<>>, [result |-> "AddressBook", out |-> <<>>])
    /\ loads' = loads + 1
    /\ UNCHANGED <<file, script, saves>>

\* save_data(book) (main.py:203), after which the process ends
SaveData ==
    /\ pc = "run"
    /\ file' = save_data(book)
    /\ pc' = "saved"
    /\ last' = Call("save_data", <<>>, [result |-> "None", out |-> <<>>])
    /\ saves' = saves + 1
    /\ UNCHANGED <<book, script, loads>>

\* book.add_record(Record(name))
AddRecord(name) ==
    /\ pc = "run"
    /\ book' = add_record(book, Record(name))
    /\ last' = Call("add_record", <<name>>, [result |-> "None", out |-> <<>>])
    /\ pc' = "returned"
    /\ UNCHANGED <<file, script, loads, saves>>

\* book.delete(name)
Delete(name) ==
    /\ pc = "run"
    /\ LET r == delete(book, name)
       IN  /\ book' = r.book
           /\ last' = Call("delete", <<name>>, r)
    /\ pc' = "returned"
    /\ UNCHANGED <<file, script, loads, saves>>

\* whether the Record under name, if any, can take one more phone in the model
HasRoom(name) ==
    LET found == find(book, name)
    IN  IF found = <<>> THEN TRUE ELSE Len(found[1].phones) < MaxPhones

\* add_contact(args, book)
AddContact(args) ==
    /\ pc = "run"
    /\ IF Len(args) < 2 THEN TRUE ELSE HasRoom(args[1])
    /\ LET r == add_contact(args, book)
       IN  /\ book' = r.book
           /\ last' = Call("add_contact", args, r)
    /\ pc' = "returned"
    /\ UNCHANGED <<file, script, loads, saves>>

\* add_birthday(args, book)
AddBirthday(args) ==
    /\ pc = "run"
    /\ LET r == add_birthday(args, book)
       IN  /\ book' = r.book
           /\ last' = Call("add_birthday", args, r)
    /\ pc' = "returned"
    /\ UNCHANGED <<file, script, loads, saves>>

\* book.find(name).add_phone(phone)
AddPhone(name, phone) ==
    /\ pc = "run"
    /\ find(book, name) # <<>>
    /\ HasRoom(name)
    /\ LET r == Record_add_phone(find(book, name)[1], phone)
       IN  /\ book' = Mutate(book, name, r.rec)
           /\ last' = Call("add_phone", <<name, phone>>, r)
    /\ pc' = "returned"
    /\ UNCHANGED <<file, script, loads, saves>>

\* book.find(name).edit_phone(old_phone, new_phone)
EditPhone(name, old_phone, new_phone) ==
    /\ pc = "run"
    /\ find(book, name) # <<>>
    /\ LET r == Record_edit_phone(find(book, name)[1], old_phone, new_phone)
       IN  /\ book' = Mutate(book, name, r.rec)
           /\ last' = Call("edit_phone", <<name, old_phone, new_phone>>, r)
    /\ pc' = "returned"
    /\ UNCHANGED <<file, script, loads, saves>>

\* book.find(name).remove_phone(phone)
RemovePhone(name, phone) ==
    /\ pc = "run"
    /\ find(book, name) # <<>>
    /\ LET r == Record_remove_phone(find(book, name)[1], phone)
       IN  /\ book' = Mutate(book, name, r.rec)
           /\ last' = Call("remove_phone", <<name, phone>>, r)
    /\ pc' = "returned"
    /\ UNCHANGED <<file, script, loads, saves>>

\* book.get_upcoming_birthdays(days) at the time now
GetUpcomingBirthdays(days, now) ==
    /\ pc = "run"
    /\ LET r == get_upcoming_birthdays(book, days, now)
       IN  last' = [op |-> "get_upcoming_birthdays", args |-> <<>>,
                    result |-> IF r.raised THEN "ValueError" ELSE "list",
                    out |-> <<>>, value |-> r.value, pre |-> book,
                    now |-> <<now>>, days |-> days]
    /\ pc' = "returned"
    /\ UNCHANGED <<book, file, script, loads, saves>>

\* birthdays(args, book) at the time now
Birthdays(now) ==
    /\ pc = "run"
    /\ LET r == birthdays(<<>>, book, now)
       IN  last' = [op |-> "birthdays", args |-> <<>>, result |-> r.result,
                    out |-> r.out, value |-> r.value, pre |-> book,
                    now |-> <<now>>, days |-> DefaultDays]
    /\ pc' = "returned"
    /\ UNCHANGED <<book, file, script, loads, saves>>

\* the caller has seen what the call returned and goes on
Return ==
    /\ pc = "returned"
    /\ pc' = "run"
    /\ last' = NoCall
    /\ UNCHANGED <<book, file, script, loads, saves>>

Next ==
    \/ LoadData
    \/ Return
    \/ SaveData
    \/ \E name \in Names : AddRecord(name)
    \/ \E name \in Names : Delete(name)
    \/ \E args \in AddArgs : AddContact(args)
    \/ \E args \in BirthdayArgs : AddBirthday(args)
    \/ \E name \in Names, phone \in PhoneInputs : AddPhone(name, phone)
    \/ \E name \in Names, old \in OldPhoneInputs, new \in PhoneInputs : EditPhone(name, old, new)
    \/ \E name \in Names, phone \in OldPhoneInputs : RemovePhone(name, phone)
    \/ \E days \in DaysInputs, now \in Nows : GetUpcomingBirthdays(days, now)
    \/ \E now \in Nows : Birthdays(now)

Spec == Init /\ [][Next]_vars

----------------------------------------------------------------------------
(* The command loop (main.py:177-256) *)

UpperCase == <<"A", "B", "C", "D", "E", "F", "G", "H", "I", "J", "K", "L", "M",
               "N", "O", "P", "Q", "R", "S", "T", "U", "V", "W", "X", "Y", "Z">>
LowerCase == <<"a", "b", "c", "d", "e", "f", "g", "h", "i", "j", "k", "l", "m",
               "n", "o", "p", "q", "r", "s", "t", "u", "v", "w", "x", "y", "z">>

LowerChar(c) ==
    IF \E k \in 1..26 : UpperCase[k] = c
    THEN LowerCase[CHOOSE k \in 1..26 : UpperCase[k] = c]
    ELSE c

RECURSIVE LowerFrom(_, _)
LowerFrom(str, i) ==
    IF i > Len(str) THEN <<>> ELSE <<LowerChar(str[i])>> \o LowerFrom(str, i + 1)

\* str.lower()
lower(str) == LowerFrom(str, 1)

\* str.split(): the maximal runs of characters other than whitespace, the
\* space being the whitespace of the model's alphabet.  cur is the run read
\* so far
RECURSIVE SplitFrom(_, _, _)
SplitFrom(str, i, cur) ==
    IF i > Len(str) THEN (IF cur = <<>> THEN <<>> ELSE <<cur>>)
    ELSE IF str[i] = " "
         THEN (IF cur = <<>> THEN <<>> ELSE <<cur>>) \o SplitFrom(str, i + 1, <<>>)
         ELSE SplitFrom(str, i + 1, Append(cur, str[i]))

split(str) == SplitFrom(str, 1, <<>>)

\* parse_input (main.py:177-181): raised when parts[0] raises IndexError
parse_input(user_input) ==
    LET parts == split(user_input)
    IN  IF parts = <<>> THEN [raised |-> TRUE, command |-> <<>>, args |-> <<>>]
        ELSE [raised |-> FALSE, command |-> lower(parts[1]), args |-> Tail(parts)]

CMD_CLOSE == <<"c", "l", "o", "s", "e">>
CMD_EXIT == <<"e", "x", "i", "t">>
CMD_HELLO == <<"h", "e", "l", "l", "o">>
CMD_ADD == <<"a", "d", "d">>
CMD_CHANGE == <<"c", "h", "a", "n", "g", "e">>
CMD_PHONE == <<"p", "h", "o", "n", "e">>
CMD_ALL == <<"a", "l", "l">>
CMD_ADD_BIRTHDAY == <<"a", "d", "d", "-", "b", "i", "r", "t", "h", "d", "a", "y">>
CMD_SHOW_BIRTHDAY == <<"s", "h", "o", "w", "-", "b", "i", "r", "t", "h", "d", "a", "y">>
CMD_BIRTHDAYS == <<"b", "i", "r", "t", "h", "d", "a", "y", "s">>

Commands == {CMD_CLOSE, CMD_EXIT, CMD_HELLO, CMD_ADD, CMD_CHANGE, CMD_PHONE, CMD_ALL, CMD_ADD_BIRTHDAY, CMD_SHOW_BIRTHDAY, CMD_BIRTHDAYS}

\* lines typed at the prompt
\* ""
L_EMPTY == <<>>
\* " Hello"
L_HELLO == <<" ", "H", "e", "l", "l", "o">>
\* "add Ann 1234567890"
L_ADD == <<"a", "d", "d", " ", "A", "n", "n", " ", "1", "2", "3", "4", "5", "6", "7", "8", "9", "0">>
\* "add Ann 123 01.06.1990"
L_ADD_BAD == <<"a", "d", "d", " ", "A", "n", "n", " ", "1", "2", "3", " ", "0", "1", ".", "0", "6", ".", "1", "9", "9", "0">>
\* "add Bob 0987654321 29.02.2024"
L_ADD_LEAP == <<"a", "d", "d", " ", "B", "o", "b", " ", "0", "9", "8", "7", "6", "5", "4", "3", "2", "1", " ", "2", "9", ".", "0", "2", ".", "2", "0", "2", "4">>
\* "add Ann"
L_ADD_FEW == <<"a", "d", "d", " ", "A", "n", "n">>
\* "change Ann 1234567890 0987654321"
L_CHANGE == <<"c", "h", "a", "n", "g", "e", " ", "A", "n", "n", " ", "1", "2", "3", "4", "5", "6", "7", "8", "9", "0", " ", "0", "9", "8", "7", "6", "5", "4", "3", "2", "1">>
\* "change Ann 1234567890"
L_CHANGE_FEW == <<"c", "h", "a", "n", "g", "e", " ", "A", "n", "n", " ", "1", "2", "3", "4", "5", "6", "7", "8", "9", "0">>
\* "change Ann 1234567890 0987654321 x"
L_CHANGE_MANY == <<"c", "h", "a", "n", "g", "e", " ", "A", "n", "n", " ", "1", "2", "3", "4", "5", "6", "7", "8", "9", "0", " ", "0", "9", "8", "7", "6", "5", "4", "3", "2", "1", " ", "x">>
\* "phone Ann"
L_PHONE == <<"p", "h", "o", "n", "e", " ", "A", "n", "n">>
\* "phone"
L_PHONE_FEW == <<"p", "h", "o", "n", "e">>
\* "all"
L_ALL == <<"a", "l", "l">>
\* "add-birthday Ann 01.06.1990"
L_ADD_BIRTHDAY == <<"a", "d", "d", "-", "b", "i", "r", "t", "h", "d", "a", "y", " ", "A", "n", "n", " ", "0", "1", ".", "0", "6", ".", "1", "9", "9", "0">>
\* "add-birthday Ann"
L_ADD_BIRTHDAY_FEW == <<"a", "d", "d", "-", "b", "i", "r", "t", "h", "d", "a", "y", " ", "A", "n", "n">>
\* "show-birthday Ann"
L_SHOW_BIRTHDAY == <<"s", "h", "o", "w", "-", "b", "i", "r", "t", "h", "d", "a", "y", " ", "A", "n", "n">>
\* "show-birthday"
L_SHOW_BIRTHDAY_FEW == <<"s", "h", "o", "w", "-", "b", "i", "r", "t", "h", "d", "a", "y">>
\* "birthdays"
L_BIRTHDAYS == <<"b", "i", "r", "t", "h", "d", "a", "y", "s">>
\* "foo"
L_UNKNOWN == <<"f", "o", "o">>
\* "exit"
L_EXIT == <<"e", "x", "i", "t">>
\* "CLOSE"
L_CLOSE == <<"C", "L", "O", "S", "E">>

Lines ==
    {L_EMPTY, L_HELLO, L_ADD, L_ADD_BAD, L_ADD_LEAP,
     L_ADD_FEW, L_CHANGE, L_CHANGE_FEW, L_CHANGE_MANY, L_PHONE,
     L_PHONE_FEW, L_ALL, L_ADD_BIRTHDAY, L_ADD_BIRTHDAY_FEW, L_SHOW_BIRTHDAY,
     L_SHOW_BIRTHDAY_FEW, L_BIRTHDAYS, L_UNKNOWN}

ExitLines == {L_EXIT, L_CLOSE}

RECURSIVE SeqsUpTo(_, _)
\* the sequences over S of length at most n
SeqsUpTo(S, n) ==
    IF n = 0 THEN {<<>>}
    ELSE LET shorter == SeqsUpTo(S, n - 1)
         IN  shorter \cup {Append(q, x) : q \in shorter, x \in S}

\* a book a former session may have saved
SavedBook == add_contact(<<ANN, P1, B_JUN1>>, <<>>).book

\* main() is started with the file missing or written by a former session,
\* and reads lines that end with an exit command
InitMain ==
    /\ book = <<>>
    /\ file \in {<<>>, save_data(SavedBook)}
    /\ pc = "start"
    /\ last = NoCall
    /\ script \in {q \o <<e>> : q \in SeqsUpTo(Lines, MaxScript), e \in ExitLines}
    /\ loads = 0
    /\ saves = 0

\* what input() returns next, parsed
Parsed == parse_input(Head(script))

AtPrompt == pc = "loop" /\ script # <<>>

Reads(command) == AtPrompt /\ ~Parsed.raised /\ Parsed.command = command

\* the loop goes on to the next prompt with the book as r leaves it
Handled(op, r) ==
    /\ book' = r.book
    /\ last' = [op |-> op, args |-> Parsed.args, result |-> r.result, out |-> r.out,
                value |-> r.value, pre |-> book, now |-> <<>>, days |-> 0]
    /\ script' = Tail(script)
    /\ UNCHANGED <<file, pc, loads, saves>>

\* an exception leaves main(): the process ends with a traceback
Uncaught(op, exception) ==
    /\ pc' = "crashed"
    /\ last' = [op |-> op, args |-> <<>>, result |-> exception, out |-> <<>>,
                value |-> <<>>, pre |-> book, now |-> <<>>, days |-> 0]
    /\ script' = Tail(script)
    /\ UNCHANGED <<book, file, loads, saves>>

\* main.py:195-196: book = load_data(), then the welcome line is printed
MainLoad ==
    /\ pc = "start"
    /\ book' = load_data(file)
    /\ pc' = "loop"
    /\ last' = Call("load_data", <<>>, [result |-> "AddressBook",
                                        out |-> <<"Welcome to the assistant bot!">>])
    /\ loads' = loads + 1
    /\ UNCHANGED <<file, script, saves>>

\* main.py:199 with parts empty: parts[0] raises IndexError, which nothing catches
CmdNoTokens ==
    /\ AtPrompt
    /\ Parsed.raised
    /\ Uncaught("parse_input", "IndexError")

\* main.py:201-204
CmdExit ==
    /\ AtPrompt /\ ~Parsed.raised /\ Parsed.command \in {CMD_CLOSE, CMD_EXIT}
    /\ file' = save_data(book)
    /\ saves' = saves + 1
    /\ pc' = "done"
    /\ last' = Call("save_data", <<>>, [result |-> "None", out |-> <<"Good bye!">>])
    /\ script' = Tail(script)
    /\ UNCHANGED <<book, loads>>

\* main.py:206-207
CmdHello ==
    /\ Reads(CMD_HELLO)
    /\ Handled("hello", Ret(book, "None", <<"How can I help you?">>))

\* main.py:209-210
CmdAdd ==
    /\ Reads(CMD_ADD)
    /\ Handled("add", add_contact(Parsed.args, book))

\* main.py:212-224; the unpacking at line 216 raises ValueError on more than
\* three arguments, which nothing catches
CmdChange ==
    /\ Reads(CMD_CHANGE)
    /\ LET args == Parsed.args
       IN  IF Len(args) < 3
           THEN Handled("change", Ret(book, "None",
                    <<"Not enough arguments. Usage: change [name] [old_phone] [new_phone]">>))
           ELSE IF Len(args) > 3
           THEN Uncaught("change", "ValueError")
           ELSE IF find(book, args[1]) = <<>>
           THEN Handled("change", Ret(book, "None", <<"Contact {name} not found.">>))
           ELSE LET r == Record_edit_phone(find(book, args[1])[1], args[2], args[3])
                IN  Handled("change",
                        Ret(Mutate(book, args[1], r.rec), r.result,
                            r.out \o <<IF r.result = "True"
                                       THEN "Phone number for {name} updated."
                                       ELSE "Failed to update phone number.">>))

\* main.py:225-234
CmdPhone ==
    /\ Reads(CMD_PHONE)
    /\ Handled("phone", Ret(book, "None",
            <<IF Parsed.args = <<>> THEN "Not enough arguments. Usage: phone [name]"
              ELSE IF find(book, Parsed.args[1]) = <<>> THEN "Contact {name} not found."
              ELSE "{name}'s phone numbers: {phones}">>))

\* print(record) for every entry from the i-th on, in the dict's order: one
\* printed line, str(record), per Record (main.py:237-238)
RECURSIVE AllLines(_, _)
AllLines(data, i) ==
    IF i > Len(data) THEN <<>> ELSE <<Record_str(data[i].rec)>> \o AllLines(data, i + 1)

\* main.py:236-238
CmdAll ==
    /\ Reads(CMD_ALL)
    /\ Handled("all", Ret(book, "None", AllLines(book, 1)))

\* main.py:240-244
CmdAddBirthday ==
    /\ Reads(CMD_ADD_BIRTHDAY)
    /\ IF Len(Parsed.args) < 2
       THEN Handled("add-birthday", Ret(book, "None",
                <<"Not enough arguments. Usage: add-birthday [name] [birthday]">>))
       ELSE Handled("add-birthday", add_birthday(Parsed.args, book))

\* main.py:246-250
CmdShowBirthday ==
    /\ Reads(CMD_SHOW_BIRTHDAY)
    /\ IF Parsed.args = <<>>
       THEN Handled("show-birthday", Ret(book, "None",
                <<"Not enough arguments. Usage: show-birthday [name]">>))
       ELSE Handled("show-birthday", show_birthday(Parsed.args, book))

\* main.py:252-253
CmdBirthdays(now) ==
    /\ Reads(CMD_BIRTHDAYS)
    /\ Handled("birthdays", birthdays(Parsed.args, book, now))

\* main.py:255-256
CmdInvalid ==
    /\ AtPrompt /\ ~Parsed.raised /\ Parsed.command \notin Commands
    /\ Handled("invalid", Ret(book, "None", <<"Invalid command.">>))

NextMain ==
    \/ MainLoad
    \/ CmdNoTokens
    \/ CmdExit
    \/ CmdHello
    \/ CmdAdd
    \/ CmdChange
    \/ CmdPhone
    \/ CmdAll
    \/ CmdAddBirthday
    \/ CmdShowBirthday
    \/ \E now \in Nows : CmdBirthdays(now)
    \/ CmdInvalid

SpecMain == InitMain /\ [][NextMain]_vars

----------------------------------------------------------------------------
(* Vocabulary of the specification, written without the code's validators *)

\* a phone as the specification defines it: exactly 10 characters, each a
\* decimal digit
IsTenDecimalDigits(str) == Len(str) = 10 /\ \A i \in 1..10 : str[i] \in DecimalDigits

TwoDigits(str, i) == 10 * DigitVal(str[i]) + DigitVal(str[i + 1])

\* a birthday as the specification defines it: DD.MM.YYYY exactly, two-digit
\* day, two-digit month, four-digit year, naming a day of the calendar
IsDayMonthYear(str) ==
    /\ Len(str) = 10
    /\ str[3] = "." /\ str[6] = "."
    /\ \A i \in {1, 2, 4, 5, 7, 8, 9, 10} : str[i] \in DecimalDigits
    /\ LET d == TwoDigits(str, 1)
           m == TwoDigits(str, 4)
           y == 100 * TwoDigits(str, 7) + TwoDigits(str, 9)
       IN  /\ y >= 1
           /\ m \in 1..12
           /\ d >= 1
           /\ IF m \in 1..12 THEN d <= DaysInMonth(y, m) ELSE FALSE

\* the date a DD.MM.YYYY string names, at midnight
DateNamed(str) ==
    Datetime(100 * TwoDigits(str, 7) + TwoDigits(str, 9), TwoDigits(str, 4), TwoDigits(str, 1), 0)

\* the call op has returned to its caller
Returned(op) == pc = "returned" /\ last.op = op

\* the Record under key in data (key is a key of data)
RecordAt(data, key) == data[IndexOfKey(data, key, 1)].rec

PhoneValues(rec) == [i \in 1..Len(rec.phones) |-> rec.phones[i].value]

----------------------------------------------------------------------------
(* C1: add_contact with a birthday that is supplied and is not a valid     *)
(* DD.MM.YYYY date leaves the Directory as it was and returns a failure    *)
(* description, not "added" or "updated".                                  *)
C1_InvalidBirthdayIsAtomic ==
    (Returned("add_contact") /\ Len(last.args) >= 3)
    => LET birthday == last.args[3]
       IN  (Len(birthday) > 0 /\ ~IsDayMonthYear(birthday))
           => /\ book = last.pre
              /\ last.result \notin {"Contact added.", "Contact updated."}

\* the part of C1 the code keeps: when add_contact reports the failure the
\* Directory is as it was, whatever the phone
AddContactFailureIsAtomic ==
    (Returned("add_contact")
     /\ last.result = "Failed to add contact. Invalid date format. Use DD.MM.YYYY")
    => book = last.pre

----------------------------------------------------------------------------
(* C2: get_upcoming_birthdays(days) returns, in insertion order, exactly   *)
(* the Records with a birthday whose month and day, in the reference       *)
(* date's year, lie in the inclusive window of dates                       *)
(* [reference date, reference date + days]: the reference day itself and   *)
(* the day `days` days later are in the window.                            *)

\* the claim's window, on dates: today's ordinal up to today's ordinal + days
InClaimedWindow(rec, now, days) ==
    /\ rec.birthday # <<>>
    /\ LET b == rec.birthday[1].value
           today == Ordinal(now.year, now.month, now.day)
           projected == Ordinal(now.year, b.month, b.day)
       IN  today <= projected /\ projected <= today + days

RECURSIVE ClaimedUpcoming(_, _, _, _)
ClaimedUpcoming(data, i, now, days) ==
    IF i > Len(data) THEN <<>>
    ELSE (IF InClaimedWindow(data[i].rec, now, days) THEN <<data[i].rec>> ELSE <<>>)
         \o ClaimedUpcoming(data, i + 1, now, days)

\* a birthday of data that the year of now has no day for
HasUnprojectable(data, now) ==
    \E i \in 1..Len(data) :
        /\ data[i].rec.birthday # <<>>
        /\ ReplaceYear(data[i].rec.birthday[1].value, now.year) = <<>>

C2_UpcomingIsInclusiveWindow ==
    (Returned("get_upcoming_birthdays") /\ ~HasUnprojectable(last.pre, last.now[1]))
    => /\ last.result = "list"
       /\ last.value = ClaimedUpcoming(last.pre, 1, last.now[1], last.days)

----------------------------------------------------------------------------
(* C3: Record.add_phone(raw) with raw not exactly 10 decimal digits leaves *)
(* the Record unchanged and gives the caller an outcome that differs from  *)
(* the one of a successful call; with a valid raw it appends one phone     *)
(* equal to raw at the end.                                                *)
C3_AddPhoneReportsFailure ==
    Returned("add_phone")
    => LET name == last.args[1]
           raw == last.args[2]
           before == RecordAt(last.pre, name)
       IN  IF IsTenDecimalDigits(raw)
           THEN /\ book = Mutate(last.pre, name,
                                 [before EXCEPT !.phones = Append(@, [value |-> raw])])
                /\ last.result = "None"
           ELSE /\ book = last.pre
                \* a successful add_phone returns None
                /\ last.result # "None"

----------------------------------------------------------------------------
(* C4: in every state reached from the empty Directory by add_record,      *)
(* delete, add_contact, add_birthday, add_phone, edit_phone and            *)
(* remove_phone, every key equals the name value of the Record stored      *)
(* under it and no two entries share a name.                               *)
C4_KeyIsRecordName ==
    /\ \A i \in 1..Len(book) : book[i].key = book[i].rec.name.value
    /\ \A i, j \in 1..Len(book) :
          (i # j) => /\ book[i].key # book[j].key
                     /\ book[i].rec.name.value # book[j].rec.name.value

\* add_record has replaced the Record of a name, the other entry being kept
C4_Witness ==
    /\ Returned("add_record")
    /\ Len(last.pre) = 2
    /\ last.args[1] \in Keys(last.pre)
    /\ RecordAt(last.pre, last.args[1]).phones # <<>>
    /\ Len(book) = 2

----------------------------------------------------------------------------
(* C5: add_contact([name, phone]) or ([name, phone, birthday]) with a      *)
(* valid phone and a valid or absent birthday: (a) if name is no key, the  *)
(* Directory gains exactly one entry, keyed name, with phones [phone] and  *)
(* the birthday supplied or none, and the outcome is "added"; (b) if name  *)
(* is a key, its Record gets phone appended at the end, its birthday is    *)
(* overwritten only if one was supplied, and the outcome is "updated";     *)
(* every other entry is unchanged.                                         *)
C5_UpsertOutcomeAndMerge ==
    (/\ Returned("add_contact")
     /\ Len(last.args) \in {2, 3}
     /\ IsTenDecimalDigits(last.args[2])
     /\ IF Len(last.args) = 3 THEN IsDayMonthYear(last.args[3]) ELSE TRUE)
    => LET name == last.args[1]
           phone == [value |-> last.args[2]]
           supplied == Len(last.args) = 3
           birthday == [value |-> DateNamed(last.args[3])]
           i == IndexOfKey(last.pre, name, 1)
       IN  IF name \notin Keys(last.pre)
           THEN /\ book = Append(last.pre,
                            [key |-> name,
                             rec |-> [name |-> [value |-> name],
                                      phones |-> <<phone>>,
                                      birthday |-> IF supplied THEN <<birthday>> ELSE <<>>]])
                /\ last.result = "Contact added."
           ELSE /\ book = [last.pre EXCEPT
                             ![i].rec.phones = Append(@, phone),
                             ![i].rec.birthday = IF supplied THEN <<birthday>> ELSE @]
                /\ last.result = "Contact updated."

\* an update without a birthday of a Record that has a phone and a birthday,
\* beside another entry
C5_Witness ==
    /\ Returned("add_contact")
    /\ last.result = "Contact updated."
    /\ last.args = <<ANN, P2>>
    /\ Len(last.pre) = 2
    /\ PhoneValues(RecordAt(last.pre, ANN)) = <<P1>>
    /\ RecordAt(last.pre, ANN).birthday # <<>>
    /\ PhoneValues(RecordAt(book, ANN)) = <<P1, P2>>

----------------------------------------------------------------------------
(* C6: load_data on the file save_data(D) wrote gives a Directory with     *)
(* the key set of D and, for every key, the same name, the same phone      *)
(* values in the same order and the same birthday or none; load_data on a  *)
(* path that does not exist gives an empty Directory.                      *)
SameDirectory(a, b) ==
    /\ Keys(a) = Keys(b)
    /\ Len(a) = Cardinality(Keys(a))
    /\ \A key \in Keys(a) :
          /\ RecordAt(a, key).name.value = RecordAt(b, key).name.value
          /\ PhoneValues(RecordAt(a, key)) = PhoneValues(RecordAt(b, key))
          /\ RecordAt(a, key).birthday = RecordAt(b, key).birthday

\* last.pre is the book of the process that saved, book the one loaded
C6_LoadOfSaveIsSame ==
    (last.op = "load_data" /\ pc \in {"run", "loaded"})
    => IF file = <<>> THEN book = <<>>
       ELSE file = save_data(last.pre) /\ SameDirectory(book, last.pre)

\* a Directory of a Record without phones and a Record with two phones and
\* a birthday has been saved and loaded
C6_Witness ==
    /\ pc = "loaded"
    /\ Len(last.pre) = 2
    /\ \E i, j \in 1..2 :
          /\ last.pre[i].rec.phones = <<>>
          /\ Len(last.pre[j].rec.phones) = 2
          /\ last.pre[j].rec.birthday # <<>>
    /\ Len(book) = 2

----------------------------------------------------------------------------
(* C7: Record.edit_phone(old_raw, new_raw): if some phone equals old_raw   *)
(* and new_raw is exactly 10 digits, the first phone equal to old_raw is   *)
(* replaced by new_raw at its index, nothing else of the sequence changes  *)
(* and the call returns success; if no phone equals old_raw or new_raw is  *)
(* invalid, the sequence is unchanged and the call returns failure.  The   *)
(* name and the birthday never change.                                     *)
C7_EditPhoneInPlace ==
    Returned("edit_phone")
    => LET name == last.args[1]
           old_raw == last.args[2]
           new_raw == last.args[3]
           before == RecordAt(last.pre, name)
           i == IndexOfPhone(before.phones, old_raw, 1)
       IN  IF i # 0 /\ IsTenDecimalDigits(new_raw)
           THEN /\ book = Mutate(last.pre, name,
                                 [before EXCEPT !.phones[i] = [value |-> new_raw]])
                /\ last.result = "True"
           ELSE /\ book = last.pre
                /\ last.result = "False"

----------------------------------------------------------------------------
(* C8: in every state reached by add_contact, add_phone, edit_phone and    *)
(* remove_phone with any arguments, every phone stored in every Record is  *)
(* a string of exactly 10 decimal digits.                                  *)
C8_StoredPhonesAreTenDecimalDigits ==
    \A i \in 1..Len(book) :
        \A k \in 1..Len(book[i].rec.phones) :
            IsTenDecimalDigits(book[i].rec.phones[k].value)

----------------------------------------------------------------------------
(* C9: with a Record whose birthday is 29 February in the Directory and a  *)
(* reference year that is not a leap year, get_upcoming_birthdays does not *)
(* fail: it returns the window result, so that every other Record whose    *)
(* projected birthday lies in the window is returned.                      *)
C9_LeapDayDoesNotFail ==
    (Returned("get_upcoming_birthdays") /\ HasUnprojectable(last.pre, last.now[1]))
    => /\ last.result = "list"
       /\ \A i \in 1..Len(last.pre) :
             LET rec == last.pre[i].rec
             IN  (/\ rec.birthday # <<>>
                  /\ ReplaceYear(rec.birthday[1].value, last.now[1].year) # <<>>
                  /\ InWindow(rec, last.now[1], PlusDays(last.now[1], last.days)) = "append")
                 => \E k \in 1..Len(last.value) : last.value[k] = rec

----------------------------------------------------------------------------
(* C10: in every run of the command loop on lines that end with exit or    *)
(* close, load is performed exactly once, before the first command; save   *)
(* is performed exactly once, at the exit command, on the Directory as the *)
(* commands before it left it; no other command saves; and the run never   *)
(* ends without that save.                                                 *)
C10_LoadOnceSaveOnceAtExit ==
    /\ pc = "start" => loads = 0 /\ saves = 0
    /\ pc = "loop" => loads = 1 /\ saves = 0
    /\ pc \in {"done", "crashed"} => loads = 1 /\ saves = 1 /\ file = save_data(book)

=============================================================================
